---- MODULE Spec2Model ----
(***************************************************************************)
(* Model of the AI engine router (backend/app/ai_engines/engine_router.py) *)
(* together with the two providers it routes between: OllamaEngine (local) *)
(* and GeminiEngine (cloud).                                               *)
(*                                                                         *)
(* One action per public method of AIEngineRouter.  A provider call is a   *)
(* function of the provider's flags, of the operation's arguments and of   *)
(* what the remote service answers; the answer is the only nondeterminism. *)
(***************************************************************************)
EXTENDS Integers, Sequences, FiniteSets, TLC

\* ---------------------------------------------------------------------------
\* Bounds of the model
\* ---------------------------------------------------------------------------

\* Router operation calls made in one behaviour.
MaxRequests == 2

\* Callers that run router operations at the same time on the shared router.
MaxCallers == 2

\* Questions asked of the three-tier engine in one call.
MaxCount == 2

\* Models the local server lists.
MaxModels == 2

\* ---------------------------------------------------------------------------
\* Python values, abstracted
\* ---------------------------------------------------------------------------

\* A value a provider method returns, as a record:
\*   type   "dict" | "list" | "int" | "null"
\*   fields keys of a dict, or keys of the items of a list of dicts
\*   items  what a list holds: "dict" | "int" | "str" ("none" for a non-list)
\*   size   number of items of a list, the number itself for an int
\*   score  value carried by the numeric fields of a dict, -1 if it has none
\*   src    "llm" parsed from the provider's answer, "default" built locally
\*          after a parse failure, "short" / "nodata" / "exact" built without
\*          asking the provider
Dict(f, sc, s) ==
    [type |-> "dict", fields |-> f, items |-> "none", size |-> 0, score |-> sc, src |-> s]
List(it, f, n, s) ==
    [type |-> "list", fields |-> f, items |-> it, size |-> n, score |-> -1, src |-> s]
Num(n) ==
    [type |-> "int", fields |-> {}, items |-> "none", size |-> n, score |-> -1, src |-> "llm"]
Null ==
    [type |-> "null", fields |-> {}, items |-> "none", size |-> 0, score |-> -1, src |-> "llm"]

Bool(b) ==
    [type |-> "bool", fields |-> {}, items |-> "none", size |-> IF b THEN 1 ELSE 0,
     score |-> -1, src |-> "none"]

\* None, also the value of a call that returned nothing
NoVal ==
    [type |-> "null", fields |-> {}, items |-> "none", size |-> 0, score |-> -1, src |-> "none"]

\* bool(v) as Python computes it
Truthy(v) ==
    CASE v.type = "dict" -> v.fields # {}
      [] v.type = "list" -> v.size > 0
      [] v.type = "int"  -> v.size # 0
      [] v.type = "bool" -> v.size = 1
      [] OTHER           -> FALSE

\* How a call ends: it returns a value or raises an exception.
Return(v) == [kind |-> "return", err |-> "none", val |-> v]
Raise(e)  == [kind |-> "raise", err |-> e, val |-> NoVal]
NoOutcome == [kind |-> "none", err |-> "none", val |-> NoVal]

\* ---------------------------------------------------------------------------
\* Strings: answers are sequences of the characters " " and "a"
\* ---------------------------------------------------------------------------

RECURSIVE Rep(_, _)
Rep(c, n) == IF n = 0 THEN <<>> ELSE <<c>> \o Rep(c, n - 1)

RECURSIVE LStrip(_)
LStrip(s) == IF s # <<>> /\ Head(s) = " " THEN LStrip(Tail(s)) ELSE s

RECURSIVE RStrip(_)
RStrip(s) ==
    IF s # <<>> /\ s[Len(s)] = " " THEN RStrip(SubSeq(s, 1, Len(s) - 1)) ELSE s

\* str.strip()
Strip(s) == RStrip(LStrip(s))

\* len(s.split()): the number of maximal runs of non-blank characters
RECURSIVE Words(_)
Words(s) ==
    IF s = <<>> THEN 0
    ELSE IF Head(s) = " " THEN Words(Tail(s))
    ELSE IF Len(s) = 1 \/ s[2] = " " THEN 1 + Words(Tail(s))
    ELSE Words(Tail(s))

Min(a, b) == IF a < b THEN a ELSE b
Max(a, b) == IF a > b THEN a ELSE b

\* The answers a candidate gives: empty, blank, nine characters, nine
\* characters padded to eleven, ten characters, and a four-word answer.
Answers ==
    { <<>>,
      Rep(" ", 3),
      Rep("a", 9),
      <<" ">> \o Rep("a", 9) \o <<" ">>,
      Rep("a", 10),
      Rep("a", 3) \o <<" ">> \o Rep("a", 3) \o <<" ">> \o Rep("a", 3) \o <<" ">> \o Rep("a", 3) }

\* ---------------------------------------------------------------------------
\* Operations of the router
\* ---------------------------------------------------------------------------

QuestionOps == {"generate_first_question", "generate_next_question"}

FallbackOps ==
    QuestionOps \cup
    { "extract_candidate_context", "evaluate_answer", "generate_final_report",
      "calculate_job_fit", "generate_aptitude_questions" }

Operations == FallbackOps \cup {"evaluate_aptitude_answer"}

QuestionFields == {"id", "text", "type", "expected_intent", "difficulty"}
ScoreFields == {"technical", "communication", "relevance"}
ReportFields ==
    { "overall_summary", "technical_score", "communication_score",
      "relevance_score", "recommendations" }
JobFitFields ==
    { "overall_fit_score", "skill_match_percentage", "experience_match_percentage",
      "role_suitability", "missing_skills", "matched_skills" }
ContextFields ==
    { "role", "interview_type", "experience_years", "experience_level", "skills",
      "education", "work_experience", "domain_analysis", "created_at" }
AptitudeFields ==
    { "id", "question", "options", "correct_answer", "explanation", "type",
      "difficulty" }
AptitudeResultFields ==
    {"correct", "score", "correct_answer", "explanation", "user_answer"}
DomainFields ==
    { "primary_domain", "technical_depth", "key_technologies", "specializations",
      "industry_experience" }

\* The fields the prompt of an operation asks the provider to answer with.
RequestedFields(op, engine) ==
    CASE op \in QuestionOps -> QuestionFields
      [] op = "evaluate_answer" ->
            IF engine = "ollama" THEN ScoreFields \cup {"expected_answer"} ELSE ScoreFields
      [] op = "generate_final_report" -> ReportFields
      [] op = "calculate_job_fit" -> JobFitFields
      [] op = "extract_candidate_context" -> DomainFields
      [] OTHER -> AptitudeFields

\* ---------------------------------------------------------------------------
\* What the remote service answers
\* ---------------------------------------------------------------------------

\* Text of a successful answer.  Each string stands for a class of answers:
\*   "prose"        text without any JSON
\*   "{}"           the empty JSON object
\*   "{full}"       an object with every requested field, numeric fields 70
\*   "{partial}"    an object with only the first requested field
\*   "{zero}"       an object with every requested field, numeric fields 0
\*   "prose {full}" "{full}" with a sentence before it
\*   "[]"           the empty JSON array
\*   "[{full}]"     an array with one "{full}" object
\*   "[7]"          an array with one number
\*   "7"            a JSON number
\*   "null"         the JSON null
Texts ==
    { "prose", "{}", "{full}", "{partial}", "{zero}", "prose {full}",
      "[]", "[{full}]", "[7]", "7", "null" }

\* How the HTTP exchange ends: a 200 with a readable body, or one of the
\* failures the call_* methods catch.
NetFailures == {"connection_error", "timeout", "http_error"}

Replies ==
    {[net |-> "ok", text |-> t] : t \in Texts} \cup
    {[net |-> k, text |-> ""] : k \in NetFailures}

NoReply == [net |-> "none", text |-> ""]

\* The first requested field of each operation, the one "{partial}" carries.
PartialKeys ==
    {"id", "technical", "overall_summary", "overall_fit_score", "primary_domain"}

ParseOk(v) == [ok |-> TRUE, val |-> v]
ParseFail == [ok |-> FALSE, val |-> NoVal]

\* json.loads(text); ParseFail stands for json.JSONDecodeError.  "[s]" is the
\* array of strings found inside an object ("options": ["A) ...", ...]).
json_loads(text, req) ==
    CASE text = "{}"        -> ParseOk(Dict({}, -1, "llm"))
      [] text = "{full}"    -> ParseOk(Dict(req, 70, "llm"))
      [] text = "{partial}" -> ParseOk(Dict(req \cap PartialKeys, 70, "llm"))
      [] text = "{zero}"    -> ParseOk(Dict(req, 0, "llm"))
      [] text = "[]"        -> ParseOk(List("none", {}, 0, "llm"))
      [] text = "[{full}]"  -> ParseOk(List("dict", req, 1, "llm"))
      [] text = "[7]"       -> ParseOk(List("int", {}, 1, "llm"))
      [] text = "[s]"       -> ParseOk(List("str", {}, 4, "llm"))
      [] text = "7"         -> ParseOk(Num(7))
      [] text = "null"      -> ParseOk(Null)
      [] OTHER              -> ParseFail

NoSlice == "<no slice>"

\* response[response.find('{') : response.rfind('}') + 1], NoSlice when the
\* text has no '{' followed by a later '}'.
BraceSlice(text) ==
    CASE text \in {"{}", "{full}", "{partial}", "{zero}"} -> text
      [] text \in {"prose {full}", "[{full}]"} -> "{full}"
      [] OTHER -> NoSlice

\* response[response.find('[') : response.rfind(']') + 1].  An object holds
\* arrays only when the requested fields do ("options" of an aptitude
\* question); the slice is then that inner array of strings.
BracketSlice(text, req) ==
    CASE text \in {"[]", "[{full}]", "[7]"} -> text
      [] text \in {"{full}", "{zero}", "prose {full}"} /\ "options" \in req -> "[s]"
      [] OTHER -> NoSlice

\* The parse of the local provider's object operations.
ParseBraces(text, req) ==
    IF BraceSlice(text) = NoSlice THEN ParseFail ELSE json_loads(BraceSlice(text), req)

\* The parse of the local provider's list operation.
ParseBrackets(text, req) ==
    IF BracketSlice(text, req) = NoSlice THEN ParseFail
    ELSE json_loads(BracketSlice(text, req), req)

\* v[key] = ... on a parsed value: only a dict takes it.
SetItem(v, key) ==
    IF v.type = "dict" THEN Return([v EXCEPT !.fields = @ \cup {key}])
    ELSE Raise("TypeError")

\* for i, q in enumerate(v): q["id"] = ...; q["timestamp"] = ...; return v
StampItems(v) ==
    CASE v.type = "list" /\ v.size = 0 -> Return(v)
      [] v.type = "list" /\ v.items = "dict" ->
            Return([v EXCEPT !.fields = @ \cup {"id", "timestamp"}])
      [] v.type = "dict" /\ v.fields = {} -> Return(v)
      [] OTHER -> Raise("TypeError")

\* ---------------------------------------------------------------------------
\* Arguments of the operations
\* ---------------------------------------------------------------------------

\* str.lower() on the characters used here
LowerChar(c) == IF c = "A" THEN "a" ELSE IF c = "B" THEN "b" ELSE c
Lower(s) == [i \in 1..Len(s) |-> LowerChar(s[i])]

\* (user_answer, correct_answer) pairs given to evaluate_aptitude_answer
AptitudePairs ==
    { <<(<<"a">>), (<<"A">>)>>,
      <<(<<" ", "A", " ">>), (<<"a">>)>>,
      <<(<<"a">>), (<<"a", " ">>)>>,
      <<(<<"b">>), (<<"A">>)>> }

\* The scores of the evaluations handed to generate_final_report
EvaluationLists == { <<>>, <<60>>, <<40, 81>> }

RECURSIVE Sum(_)
Sum(q) == IF q = <<>> THEN 0 ELSE Head(q) + Sum(Tail(q))

\* int(sum(...) / len(evaluations))
Average(q) == Sum(q) \div Len(q)

NoArgs ==
    [answer |-> <<>>, evaluations |-> <<>>, user_answer |-> <<>>, correct_answer |-> <<>>]

\* The arguments an operation reads; the others stay at their NoArgs value.
ArgsOf(op) ==
    CASE op = "evaluate_answer" -> {[NoArgs EXCEPT !.answer = a] : a \in Answers}
      [] op = "generate_final_report" ->
            {[NoArgs EXCEPT !.evaluations = e] : e \in EvaluationLists}
      [] op = "evaluate_aptitude_answer" ->
            {[NoArgs EXCEPT !.user_answer = p[1], !.correct_answer = p[2]] : p \in AptitudePairs}
      [] OTHER -> {NoArgs}

\* ---------------------------------------------------------------------------
\* OllamaEngine
\* ---------------------------------------------------------------------------

\* A provider method's effect: how it ends and how many HTTP requests it made.
Done(o, n) == [outcome |-> o, net |-> n]

\* call_ollama: "" without a request when the engine is not available, "" when
\* the request fails in any way, else the text of the answer.
call_ollama(available, reply) ==
    IF ~available THEN [text |-> "", net |-> 0]
    ELSE IF reply.net # "ok" THEN [text |-> "", net |-> 1]
    ELSE [text |-> reply.text, net |-> 1]

\* not answer or len(answer.strip()) < 10
TooShort(answer) == answer = <<>> \/ Len(Strip(answer)) < 10

\* min(85, max(40, len(answer.split()) * 2))
LengthScore(answer) == Min(85, Max(40, Words(answer) * 2))

\* The shared shape of the local provider's object operations: parse the
\* braces, stamp the parsed object, else return the operation's default.
OllamaObject(op, text, default) ==
    LET parsed == ParseBraces(text, RequestedFields(op, "ollama"))
    IN  IF parsed.ok THEN SetItem(parsed.val, "timestamp") ELSE Return(default)

Ollama_extract_candidate_context(available, reply, args) ==
    LET r == call_ollama(available, reply)
        parsed == ParseBraces(r.text, DomainFields)
    IN  Done(Return(Dict(ContextFields \cup {"ai_engine"}, -1,
                         IF parsed.ok THEN "llm" ELSE "default")), r.net)

Ollama_generate_first_question(available, reply, args) ==
    LET r == call_ollama(available, reply)
    IN  Done(OllamaObject("generate_first_question", r.text,
                          Dict(QuestionFields \cup {"timestamp"}, -1, "default")), r.net)

Ollama_generate_next_question(available, reply, args) ==
    LET r == call_ollama(available, reply)
    IN  Done(OllamaObject("generate_next_question", r.text,
                          Dict(QuestionFields \cup {"timestamp"}, -1, "default")), r.net)

\* The short-answer branch formats its message with `role`, a local variable
\* that is assigned only after the branch: reading it raises.
Ollama_evaluate_answer(available, reply, args) ==
    IF TooShort(args.answer) THEN Done(Raise("UnboundLocalError"), 0)
    ELSE LET r == call_ollama(available, reply)
         IN  Done(OllamaObject("evaluate_answer", r.text,
                               Dict(ScoreFields \cup {"expected_answer", "timestamp"},
                                    LengthScore(args.answer), "default")), r.net)

\* generate_final_report averaging the scores without looking at the list
\* first: no evaluations, a division by zero.
OllamaReportUnguarded(available, reply, args) ==
    IF args.evaluations = <<>> THEN Done(Raise("ZeroDivisionError"), 0)
    ELSE LET r == call_ollama(available, reply)
             parsed == ParseBraces(r.text, ReportFields)
         IN  Done(IF parsed.ok THEN Return(parsed.val)
                  ELSE Return(Dict(ReportFields, Average(args.evaluations), "default")),
                  r.net)

Ollama_generate_final_report(available, reply, args) ==
    IF args.evaluations = <<>> THEN Done(Return(Dict(ReportFields, 0, "nodata")), 0)
    ELSE LET r == call_ollama(available, reply)
             parsed == ParseBraces(r.text, ReportFields)
         IN  Done(IF parsed.ok THEN Return(parsed.val)
                  ELSE Return(Dict(ReportFields, Average(args.evaluations), "default")),
                  r.net)

\* The default analysis, for a job without required skills or experience:
\* overall_fit_score = round((50 + 75) / 2).
Ollama_calculate_job_fit(available, reply, args) ==
    LET r == call_ollama(available, reply)
    IN  Done(OllamaObject("calculate_job_fit", r.text,
                          Dict(JobFitFields \cup {"timestamp"}, 62, "default")), r.net)

Ollama_generate_aptitude_questions(available, reply, args) ==
    LET r == call_ollama(available, reply)
        parsed == ParseBrackets(r.text, AptitudeFields)
    IN  Done(IF parsed.ok THEN StampItems(parsed.val)
             ELSE Return(List("dict", AptitudeFields \cup {"timestamp"}, 1, "default")),
             r.net)

\* user_answer.strip().lower() == correct_answer.lower()
IsCorrect(user_answer, correct_answer) ==
    Lower(Strip(user_answer)) = Lower(correct_answer)

Ollama_evaluate_aptitude_answer(available, reply, args) ==
    Done(Return(Dict(AptitudeResultFields,
                     IF IsCorrect(args.user_answer, args.correct_answer) THEN 100 ELSE 0,
                     "exact")), 0)

OllamaCall(op, available, reply, args) ==
    CASE op = "extract_candidate_context" ->
            Ollama_extract_candidate_context(available, reply, args)
      [] op = "generate_first_question" ->
            Ollama_generate_first_question(available, reply, args)
      [] op = "generate_next_question" ->
            Ollama_generate_next_question(available, reply, args)
      [] op = "evaluate_answer" -> Ollama_evaluate_answer(available, reply, args)
      [] op = "generate_final_report" ->
            Ollama_generate_final_report(available, reply, args)
      [] op = "calculate_job_fit" -> Ollama_calculate_job_fit(available, reply, args)
      [] op = "generate_aptitude_questions" ->
            Ollama_generate_aptitude_questions(available, reply, args)
      [] OTHER -> Ollama_evaluate_aptitude_answer(available, reply, args)

\* ---------------------------------------------------------------------------
\* GeminiEngine
\* ---------------------------------------------------------------------------

\* call_gemini: "" without a request when no API key is configured, "" when
\* the request fails or the body has no candidate, else the text.
call_gemini(api_key, reply) ==
    IF ~api_key THEN [text |-> "", net |-> 0]
    ELSE IF reply.net # "ok" THEN [text |-> "", net |-> 1]
    ELSE [text |-> reply.text, net |-> 1]

\* The shared shape of the cloud provider's object operations: json.loads of
\* the whole text, stamp the parsed value, else the operation's default.
GeminiObject(op, text, default) ==
    LET parsed == json_loads(text, RequestedFields(op, "gemini"))
    IN  IF parsed.ok THEN SetItem(parsed.val, "timestamp") ELSE Return(default)

Gemini_extract_candidate_context(api_key, reply, args) ==
    LET r == call_gemini(api_key, reply)
        parsed == json_loads(r.text, DomainFields)
    IN  Done(Return(Dict(ContextFields, -1, IF parsed.ok THEN "llm" ELSE "default")), r.net)

Gemini_generate_first_question(api_key, reply, args) ==
    LET r == call_gemini(api_key, reply)
    IN  Done(GeminiObject("generate_first_question", r.text,
                          Dict(QuestionFields \cup {"timestamp"}, -1, "default")), r.net)

Gemini_generate_next_question(api_key, reply, args) ==
    LET r == call_gemini(api_key, reply)
    IN  Done(GeminiObject("generate_next_question", r.text,
                          Dict(QuestionFields \cup {"timestamp"}, -1, "default")), r.net)

\* Same short-answer branch as the local provider, with the same read of the
\* not yet assigned `role`.
Gemini_evaluate_answer(api_key, reply, args) ==
    IF TooShort(args.answer) THEN Done(Raise("UnboundLocalError"), 0)
    ELSE LET r == call_gemini(api_key, reply)
         IN  Done(GeminiObject("evaluate_answer", r.text,
                               Dict(ScoreFields \cup {"timestamp"},
                                    LengthScore(args.answer), "default")), r.net)

Gemini_generate_final_report(api_key, reply, args) ==
    IF args.evaluations = <<>> THEN Done(Return(Dict(ReportFields, 0, "nodata")), 0)
    ELSE LET r == call_gemini(api_key, reply)
             parsed == json_loads(r.text, ReportFields)
         IN  Done(IF parsed.ok THEN Return(parsed.val)
                  ELSE Return(Dict(ReportFields, Average(args.evaluations), "default")),
                  r.net)

Gemini_calculate_job_fit(api_key, reply, args) ==
    LET r == call_gemini(api_key, reply)
    IN  Done(GeminiObject("calculate_job_fit", r.text,
                          Dict(JobFitFields \cup {"timestamp"}, 62, "default")), r.net)

Gemini_generate_aptitude_questions(api_key, reply, args) ==
    LET r == call_gemini(api_key, reply)
        parsed == json_loads(r.text, AptitudeFields)
    IN  Done(IF parsed.ok THEN StampItems(parsed.val)
             ELSE Return(List("dict", AptitudeFields \cup {"timestamp"}, 1, "default")),
             r.net)

Gemini_evaluate_aptitude_answer(api_key, reply, args) ==
    Done(Return(Dict(AptitudeResultFields,
                     IF IsCorrect(args.user_answer, args.correct_answer) THEN 100 ELSE 0,
                     "exact")), 0)

GeminiCall(op, api_key, reply, args) ==
    CASE op = "extract_candidate_context" ->
            Gemini_extract_candidate_context(api_key, reply, args)
      [] op = "generate_first_question" ->
            Gemini_generate_first_question(api_key, reply, args)
      [] op = "generate_next_question" ->
            Gemini_generate_next_question(api_key, reply, args)
      [] op = "evaluate_answer" -> Gemini_evaluate_answer(api_key, reply, args)
      [] op = "generate_final_report" ->
            Gemini_generate_final_report(api_key, reply, args)
      [] op = "calculate_job_fit" -> Gemini_calculate_job_fit(api_key, reply, args)
      [] op = "generate_aptitude_questions" ->
            Gemini_generate_aptitude_questions(api_key, reply, args)
      [] OTHER -> Gemini_evaluate_aptitude_answer(api_key, reply, args)

\* ---------------------------------------------------------------------------
\* AIEngineRouter: state
\* ---------------------------------------------------------------------------

VARIABLES
    PREFER_OLLAMA,       \* module configuration, read from the environment once
    FALLBACK_TO_GEMINI,  \* module configuration, read from the environment once
    GEMINI_API_KEY,      \* TRUE when gemini_engine.api_key is set
    ollama_available,    \* ollama_engine.available
    prefer_ollama,       \* self.prefer_ollama
    fallback_enabled,    \* self.fallback_enabled
    stats,               \* self.stats
    call,                \* the last call made on the router, with its result
    threads,             \* the callers running operations on the shared router
    ollama_model,        \* ollama_engine.model
    levels               \* the three-tier engine's level_2_enabled, level_3_enabled

vars ==
    << PREFER_OLLAMA, FALLBACK_TO_GEMINI, GEMINI_API_KEY, ollama_available,
       prefer_ollama, fallback_enabled, stats, call, threads, ollama_model, levels >>

config == << PREFER_OLLAMA, FALLBACK_TO_GEMINI, GEMINI_API_KEY, ollama_available >>

\* What the router's methods never touch: the local engine's model and the
\* three-tier engine.
engines == << ollama_model, levels >>

Engines == {"ollama", "gemini"}

Other(e) == IF e = "ollama" THEN "gemini" ELSE "ollama"

\* What the router holds before a call.
Snapshot ==
    [prefer_ollama |-> prefer_ollama, fallback_enabled |-> fallback_enabled,
     stats |-> stats]

Callers == 1..MaxCallers

\* A caller's position in a router operation:
\*   pc          "idle" | "select_store" | "count_load" | "count_store" |
\*               "run" | "fallback_store" | "done"
\*   op          the operation it runs
\*   engine_name the engine _select_engine chose for it
\*   loaded      the counter value it read and has not yet written back
\*   fallbacks   the fallback events of its call
NoThread ==
    [pc |-> "idle", op |-> "none", engine_name |-> "none", loaded |-> 0, fallbacks |-> 0]

\* What a status read reports; nothing for the other calls.
NoReport == [kind |-> "none"]

NoCall ==
    [ op |-> "init", args |-> NoArgs, engine_arg |-> "", engine_name |-> "none",
      report |-> NoReport,
      outcome |-> NoOutcome, ollama_calls |-> 0, gemini_calls |-> 0, net_calls |-> 0,
      ollama_outcome |-> NoOutcome, gemini_outcome |-> NoOutcome,
      ollama_reply |-> NoReply, gemini_reply |-> NoReply,
      pre |-> [prefer_ollama |-> TRUE, fallback_enabled |-> TRUE,
               stats |-> [ollama_requests |-> 0, gemini_requests |-> 0,
                          fallback_count |-> 0, last_engine_used |-> "None"]] ]

\* A model name is the sequence of its parts: family, ":", tag.
ModelName(family, tag) == << family, ":", tag >>

\* The model the local engine is configured with when the environment names
\* none.
OLLAMA_MODEL == ModelName("llama3.1", "8b")

\* __init__: preferences from the configuration, statistics at zero.  The
\* local engine's flag is whatever its probe found, the cloud engine's key is
\* present or not.
RouterInit ==
    /\ PREFER_OLLAMA \in BOOLEAN
    /\ FALLBACK_TO_GEMINI \in BOOLEAN
    /\ GEMINI_API_KEY \in BOOLEAN
    /\ ollama_available \in BOOLEAN
    /\ prefer_ollama = PREFER_OLLAMA
    /\ fallback_enabled = FALLBACK_TO_GEMINI
    /\ stats = [ollama_requests |-> 0, gemini_requests |-> 0, fallback_count |-> 0,
                last_engine_used |-> "None"]
    /\ call = [NoCall EXCEPT !.pre.prefer_ollama = PREFER_OLLAMA,
                             !.pre.fallback_enabled = FALLBACK_TO_GEMINI]
    /\ threads = [t \in Callers |-> NoThread]

\* The router beside a local engine with its configured model and a
\* three-tier engine whose upper levels are off.
Init ==
    /\ RouterInit
    /\ ollama_model = OLLAMA_MODEL
    /\ levels = [level_2_enabled |-> FALSE, level_3_enabled |-> FALSE]

\* ---------------------------------------------------------------------------
\* AIEngineRouter: selection and execution with fallback
\* ---------------------------------------------------------------------------

\* A selection that hands back the cloud engine whatever was counted.
SelectedCloud(name, st) == [engine_name |-> "gemini", stats |-> st]

Selected(name, st) == [engine_name |-> name, stats |-> st]

\* _select_engine counting a fallback as a request to the local engine.
SelectCountingLocal(prefer, fallback, available, st) ==
    IF prefer /\ available THEN
        Selected("ollama", [st EXCEPT !.ollama_requests = @ + 1,
                                      !.last_engine_used = "ollama"])
    ELSE IF fallback THEN
        Selected("gemini", [st EXCEPT !.ollama_requests = @ + 1,
                                      !.last_engine_used = "gemini",
                                      !.fallback_count = IF prefer THEN @ + 1 ELSE @])
    ELSE
        Selected("ollama", [st EXCEPT !.ollama_requests = @ + 1,
                                      !.last_engine_used = "ollama"])

_select_engine(prefer, fallback, available, st) ==
    IF prefer /\ available THEN
        Selected("ollama", [st EXCEPT !.ollama_requests = @ + 1,
                                      !.last_engine_used = "ollama"])
    ELSE IF fallback THEN
        Selected("gemini", [st EXCEPT !.gemini_requests = @ + 1,
                                      !.last_engine_used = "gemini",
                                      !.fallback_count = IF prefer THEN @ + 1 ELSE @])
    ELSE
        Selected("ollama", [st EXCEPT !.ollama_requests = @ + 1,
                                      !.last_engine_used = "ollama"])

\* A handler that counts the cloud provider's call once more when it ends.
EffectCountingCloud(o, st, oc, gc, n) ==
    [outcome |-> o, stats |-> [st EXCEPT !.gemini_requests = @ + gc],
     ollama_calls |-> oc, gemini_calls |-> gc, net |-> n]

\* What a handler leaves behind: the caller's outcome, the statistics, and
\* which provider methods ran.
Effect(o, st, oc, gc, n) ==
    [outcome |-> o, stats |-> st, ollama_calls |-> oc, gemini_calls |-> gc, net |-> n]

\* The acceptance test also rejecting a result whose scores are all zero.
AcceptedNonZero(o) == o.kind = "return" /\ Truthy(o.val) /\ o.val.score # 0

\* if result and (not isinstance(result, (str, dict, list)) or result)
Accepted(o) == o.kind = "return" /\ Truthy(o.val)

\* The exception the except clause of _execute_with_fallback catches: the
\* primary's own, or the one raised for an empty result.
PrimaryError(o) == IF o.kind = "raise" THEN o ELSE Raise("EmptyResult")

\* _execute_with_fallback without the fallback_count update.
ExecuteWithoutCount(primary, fallback, fallback_func, fallback_on, st) ==
    IF Accepted(primary.outcome) THEN
        Effect(primary.outcome, st, 1, 0, primary.net)
    ELSE IF fallback_on /\ fallback_func THEN
        Effect(fallback.outcome, st, 1, 1, primary.net + fallback.net)
    ELSE
        Effect(PrimaryError(primary.outcome), st, 1, 0, primary.net)

\* primary and fallback are the effects of the two provider methods; the
\* fallback's is used only when the method is called.
_execute_with_fallback(primary, fallback, fallback_func, fallback_on, st) ==
    IF Accepted(primary.outcome) THEN
        Effect(primary.outcome, st, 1, 0, primary.net)
    ELSE IF fallback_on /\ fallback_func THEN
        Effect(fallback.outcome, [st EXCEPT !.fallback_count = @ + 1], 1, 1,
               primary.net + fallback.net)
    ELSE
        Effect(PrimaryError(primary.outcome), st, 1, 0, primary.net)

\* A router that gives every direct call to the cloud engine.
DirectCloud(engine_name, ollama, gemini, st) ==
    Effect(gemini.outcome, st, 0, 1, gemini.net)

\* engine.<operation>(...) on the engine _select_engine returned
Direct(engine_name, ollama, gemini, st) ==
    IF engine_name = "ollama" THEN Effect(ollama.outcome, st, 1, 0, ollama.net)
    ELSE Effect(gemini.outcome, st, 0, 1, gemini.net)

\* The shared body re-raising the primary's error when the fallback raises.
RoutedKeepingPrimaryError(engine_name, ollama, gemini, fallback_on, st) ==
    IF engine_name = "ollama" /\ fallback_on THEN
        LET e == _execute_with_fallback(ollama, gemini, TRUE, fallback_on, st)
        IN  IF e.gemini_calls = 1 /\ e.outcome.kind = "raise"
            THEN [e EXCEPT !.outcome = PrimaryError(ollama.outcome)]
            ELSE e
    ELSE Direct(engine_name, ollama, gemini, st)

\* The body shared by the seven operations that can fall back.
Routed(engine_name, ollama, gemini, fallback_on, st) ==
    IF engine_name = "ollama" /\ fallback_on THEN
        _execute_with_fallback(ollama, gemini, TRUE, fallback_on, st)
    ELSE Direct(engine_name, ollama, gemini, st)

\* ---------------------------------------------------------------------------
\* AIEngineRouter: the operations
\* ---------------------------------------------------------------------------

\* The answers a remote service may give to a provider method: one of
\* Replies when the method is called and sends a request, none otherwise.
OllamaReplies(op, args, called) ==
    IF called /\ OllamaCall(op, ollama_available, NoReply, args).net > 0
    THEN Replies ELSE {NoReply}

GeminiReplies(op, args, called) ==
    IF called /\ GeminiCall(op, GEMINI_API_KEY, NoReply, args).net > 0
    THEN Replies ELSE {NoReply}

\* TRUE when the handler of op, having selected engine_name, calls the cloud
\* provider's method after the local provider's method ended with o.
CallsGemini(op, engine_name, o) ==
    \/ engine_name = "gemini"
    \/ op \in FallbackOps /\ fallback_enabled /\ ~Accepted(o.outcome)

\* One call of a router operation: select, run, record.
Handle(op) ==
    /\ stats.ollama_requests + stats.gemini_requests < MaxRequests
    /\ LET sel == _select_engine(prefer_ollama, fallback_enabled, ollama_available, stats)
       IN  \E args \in ArgsOf(op) :
           \E oreply \in OllamaReplies(op, args, sel.engine_name = "ollama") :
              LET o == OllamaCall(op, ollama_available, oreply, args)
              IN  \E greply \in GeminiReplies(op, args, CallsGemini(op, sel.engine_name, o)) :
                    LET g == GeminiCall(op, GEMINI_API_KEY, greply, args)
                        eff == IF op \in FallbackOps
                               THEN Routed(sel.engine_name, o, g, fallback_enabled, sel.stats)
                               ELSE Direct(sel.engine_name, o, g, sel.stats)
                    IN  /\ stats' = eff.stats
                        /\ call' =
                              [ op |-> op, args |-> args, engine_arg |-> "",
                                engine_name |-> sel.engine_name,
                                report |-> NoReport,
                                outcome |-> eff.outcome,
                                ollama_calls |-> eff.ollama_calls,
                                gemini_calls |-> eff.gemini_calls,
                                net_calls |-> eff.net,
                                ollama_outcome |->
                                    IF eff.ollama_calls > 0 THEN o.outcome ELSE NoOutcome,
                                gemini_outcome |->
                                    IF eff.gemini_calls > 0 THEN g.outcome ELSE NoOutcome,
                                ollama_reply |-> oreply,
                                gemini_reply |-> greply,
                                pre |-> Snapshot ]
    /\ UNCHANGED << config, prefer_ollama, fallback_enabled, threads, engines >>

extract_candidate_context == Handle("extract_candidate_context")

generate_first_question == Handle("generate_first_question")

generate_next_question == Handle("generate_next_question")

evaluate_answer == Handle("evaluate_answer")

generate_final_report == Handle("generate_final_report")

calculate_job_fit == Handle("calculate_job_fit")

generate_aptitude_questions == Handle("generate_aptitude_questions")

evaluate_aptitude_answer == Handle("evaluate_aptitude_answer")

\* ---------------------------------------------------------------------------
\* AIEngineRouter: forced selection and reset
\* ---------------------------------------------------------------------------

\* The names force_engine is called with.
EngineNames == {"ollama", "gemini", "Ollama", "GEMINI", "mistral", ""}

\* engine_name.lower()
LowerName(n) ==
    CASE n = "Ollama" -> "ollama"
      [] n = "GEMINI" -> "gemini"
      [] OTHER -> n

\* force_engine without the availability checks.
ForcedUnchecked(engine_name, prefer, available, api_key) ==
    IF LowerName(engine_name) = "ollama" THEN [prefer_ollama |-> TRUE, result |-> TRUE]
    ELSE IF LowerName(engine_name) = "gemini" THEN [prefer_ollama |-> FALSE, result |-> TRUE]
    ELSE [prefer_ollama |-> prefer, result |-> FALSE]

\* The preference force_engine leaves and the boolean it returns.
Forced(engine_name, prefer, available, api_key) ==
    IF LowerName(engine_name) = "ollama" THEN
        IF available THEN [prefer_ollama |-> TRUE, result |-> TRUE]
        ELSE [prefer_ollama |-> prefer, result |-> FALSE]
    ELSE IF LowerName(engine_name) = "gemini" THEN
        IF api_key THEN [prefer_ollama |-> FALSE, result |-> TRUE]
        ELSE [prefer_ollama |-> prefer, result |-> FALSE]
    ELSE [prefer_ollama |-> prefer, result |-> FALSE]

Admin(op, engine_arg, result) ==
    [NoCall EXCEPT !.op = op, !.engine_arg = engine_arg, !.outcome = Return(result),
                   !.pre = Snapshot]

\* force_engine switching the fallback off as well.
ForceDisablingFallback ==
    \E engine_name \in EngineNames :
        LET f == Forced(engine_name, prefer_ollama, ollama_available, GEMINI_API_KEY)
        IN  /\ prefer_ollama' = f.prefer_ollama
            /\ fallback_enabled' = FALSE
            /\ call' = Admin("force_engine", engine_name, Bool(f.result))
            /\ UNCHANGED << config, stats, threads, engines >>

force_engine ==
    \E engine_name \in EngineNames :
        LET f == Forced(engine_name, prefer_ollama, ollama_available, GEMINI_API_KEY)
        IN  /\ prefer_ollama' = f.prefer_ollama
            /\ call' = Admin("force_engine", engine_name, Bool(f.result))
            /\ UNCHANGED << config, fallback_enabled, stats, threads, engines >>

\* reset_preferences restoring fixed values instead of the configured ones.
DefaultsHardCoded(prefer_default, fallback_default) ==
    [prefer_ollama |-> TRUE, fallback_enabled |-> TRUE]

\* The preferences reset_preferences restores.
Defaults(prefer_default, fallback_default) ==
    [prefer_ollama |-> prefer_default, fallback_enabled |-> fallback_default]

\* reset_preferences clearing the statistics as well.
ResetClearingStats ==
    LET d == Defaults(PREFER_OLLAMA, FALLBACK_TO_GEMINI)
    IN  /\ prefer_ollama' = d.prefer_ollama
        /\ fallback_enabled' = d.fallback_enabled
        /\ stats' = [ollama_requests |-> 0, gemini_requests |-> 0, fallback_count |-> 0,
                     last_engine_used |-> "None"]
        /\ call' = Admin("reset_preferences", "", NoVal)
        /\ UNCHANGED << config, threads, engines >>

reset_preferences ==
    LET d == Defaults(PREFER_OLLAMA, FALLBACK_TO_GEMINI)
    IN  /\ prefer_ollama' = d.prefer_ollama
        /\ fallback_enabled' = d.fallback_enabled
        /\ call' = Admin("reset_preferences", "", NoVal)
        /\ UNCHANGED << config, stats, threads, engines >>

\* ---------------------------------------------------------------------------
\* AIEngineRouter: status reads
\* ---------------------------------------------------------------------------

\* Statistics as they were when the router was built.
EngineStatsAtStart ==
    [ kind |-> "engine_stats",
      ollama_requests |-> 0,
      gemini_requests |-> 0,
      fallback_count |-> 0,
      last_engine_used |-> "None",
      ollama_available |-> ollama_available,
      gemini_available |-> GEMINI_API_KEY,
      current_preference |-> IF PREFER_OLLAMA THEN "ollama" ELSE "gemini",
      fallback_enabled |-> fallback_enabled ]

\* {**self.stats, "ollama_available": ..., "gemini_available": ...,
\*  "current_preference": ..., "fallback_enabled": ...}: a new mapping
EngineStats ==
    [ kind |-> "engine_stats",
      ollama_requests |-> stats.ollama_requests,
      gemini_requests |-> stats.gemini_requests,
      fallback_count |-> stats.fallback_count,
      last_engine_used |-> stats.last_engine_used,
      ollama_available |-> ollama_available,
      gemini_available |-> GEMINI_API_KEY,
      current_preference |-> IF prefer_ollama THEN "ollama" ELSE "gemini",
      fallback_enabled |-> fallback_enabled ]

\* The mapping health_check builds; "stats" is self.stats itself.
Health ==
    [ kind |-> "health",
      ollama |-> [available |-> ollama_available, model |-> ollama_model],
      gemini |-> [available |-> GEMINI_API_KEY, api_configured |-> GEMINI_API_KEY],
      router |-> [prefer_ollama |-> prefer_ollama, fallback_enabled |-> fallback_enabled,
                  stats |-> stats] ]

StatusFields ==
    { "ollama_requests", "gemini_requests", "fallback_count", "last_engine_used",
      "ollama_available", "gemini_available", "current_preference", "fallback_enabled" }

get_engine_stats ==
    /\ call' = [Admin("get_engine_stats", "", Dict(StatusFields, -1, "stats"))
                    EXCEPT !.report = EngineStats]
    /\ UNCHANGED << config, prefer_ollama, fallback_enabled, stats, threads, engines >>

health_check ==
    /\ call' = [Admin("health_check", "", Dict({"ollama", "gemini", "router"}, -1, "stats"))
                    EXCEPT !.report = Health]
    /\ UNCHANGED << config, prefer_ollama, fallback_enabled, stats, threads, engines >>

\* ---------------------------------------------------------------------------
\* IntelligenceEngine: the final report
\* ---------------------------------------------------------------------------

Level1ReportFields ==
    { "overall_summary", "technical_strengths", "technical_gaps", "communication_score",
      "behavioral_score", "improved_answers", "recommendations" }

\* "No evaluation data available.", empty lists and both scores 0
_empty_report == Dict(Level1ReportFields, 0, "nodata")

\* The deterministic report: the empty report without evaluations, else the
\* averages of the evaluations' scores.
_level1_generate_final_report(evaluations) ==
    IF evaluations = <<>> THEN Return(_empty_report)
    ELSE Return(Dict(Level1ReportFields, Average(evaluations), "level1"))

\* IntelligenceEngine.generate_final_report: Level 1 only, no provider and
\* nothing of the router involved.
intelligence_generate_final_report ==
    \E args \in ArgsOf("generate_final_report") :
        /\ call' = [Admin("intelligence_generate_final_report", "", NoVal)
                        EXCEPT !.args = args,
                               !.outcome = _level1_generate_final_report(args.evaluations)]
        /\ UNCHANGED << config, prefer_ollama, fallback_enabled, stats, threads, engines >>

\* ---------------------------------------------------------------------------
\* The probes of the local server
\* ---------------------------------------------------------------------------

\* s.startswith(p)
StartsWith(s, p) == Len(p) <= Len(s) /\ SubSeq(s, 1, Len(p)) = p

\* p in s
Contains(s, p) == \E i \in 0..(Len(s) - Len(p)) : SubSeq(s, i + 1, i + Len(p)) = p

\* model.split(":")[0]
RECURSIVE Family(_)
Family(model) ==
    IF model = <<>> \/ Head(model) = ":" THEN <<>>
    ELSE <<Head(model)>> \o Family(Tail(model))

\* The models a deployment is configured with, and the names a server lists
\* (the empty name stands for an entry without "name").
ConfiguredModels == {ModelName("llama3.1", "8b"), ModelName("mistral", "7b")}
ListedModels ==
    {ModelName("llama3.1", "8b"), ModelName("llama3.1", "70b"), ModelName("mistral", "7b"), <<>>}
ModelLists == UNION {[1..n -> ListedModels] : n \in 0..MaxModels}

\* What the server answers to GET /api/tags: the request raises
\* ("connection_error", "timeout"), the status is not 200 ("http_error"), the
\* status is 200 and the body is not JSON ("bad_body"), or the status is 200
\* and the body lists names.
ProbeFailures == {"connection_error", "timeout", "http_error", "bad_body"}
ProbeReplies ==
    {[net |-> n, names |-> <<>>] : n \in ProbeFailures} \cup
    {[net |-> "ok", names |-> l] : l \in ModelLists}

Probed(outcome, model) == [outcome |-> outcome, model |-> model]

\* A probe that lets the error of an unreadable body out.
CheckAvailabilityUnguarded(model, reply) ==
    IF reply.net = "bad_body" THEN Probed(Raise("JSONDecodeError"), model)
    ELSE IF reply.net = "ok" /\ reply.names # <<>> THEN Probed(Return(Bool(TRUE)), model)
    ELSE Probed(Return(Bool(FALSE)), model)

\* OllamaEngine._check_availability: the flag it returns and self.model after
\* it.  Every exception of the request and of response.json() is caught.
_check_availability(model, reply) ==
    IF reply.net \in {"connection_error", "timeout"} THEN Probed(Return(Bool(FALSE)), model)
    ELSE IF reply.net = "http_error" THEN Probed(Return(Bool(FALSE)), model)
    ELSE IF reply.net = "bad_body" THEN Probed(Return(Bool(FALSE)), model)
    ELSE LET model_names == reply.names
             model_available ==
                 \E i \in 1..Len(model_names) :
                     \/ Contains(model_names[i], model)
                     \/ StartsWith(model_names[i], Family(model))
         IN  IF ~model_available
             THEN IF model_names # <<>>
                  THEN Probed(Return(Bool(TRUE)), model_names[1])
                  ELSE Probed(Return(Bool(FALSE)), model)
             ELSE Probed(Return(Bool(TRUE)), model)

\* IntelligenceEngine._check_ollama_availability: status_code == 200, False on
\* any exception of the request; the body is not read.
_check_ollama_availability(reply) ==
    IF reply.net \in {"connection_error", "timeout"} THEN Return(Bool(FALSE))
    ELSE Return(Bool(reply.net # "http_error"))

\* IntelligenceEngine._check_aws_availability
_check_aws_availability == Return(Bool(FALSE))

ProbeCall(op, configured, reply, outcome) ==
    [Admin(op, "", NoVal)
        EXCEPT !.outcome = outcome,
               !.net_calls = 1,
               !.report = [kind |-> "probe", configured |-> configured, reply |-> reply]]

\* OllamaEngine.__init__: the model from the environment, the flag from the
\* probe.  An exception of the probe would leave no engine.
OllamaEngine_init ==
    \E configured \in ConfiguredModels, reply \in ProbeReplies :
        LET probe == _check_availability(configured, reply)
        IN  /\ call' = ProbeCall("OllamaEngine_init", configured, reply, probe.outcome)
            /\ IF probe.outcome.kind = "return"
               THEN /\ ollama_model' = probe.model
                    /\ ollama_available' = Truthy(probe.outcome.val)
               ELSE UNCHANGED << ollama_model, ollama_available >>
            /\ UNCHANGED << PREFER_OLLAMA, FALLBACK_TO_GEMINI, GEMINI_API_KEY, prefer_ollama,
                            fallback_enabled, stats, threads, levels >>

\* IntelligenceEngine.__init__
IntelligenceEngine_init ==
    \E reply \in ProbeReplies :
        LET probe == _check_ollama_availability(reply)
        IN  /\ call' = ProbeCall("IntelligenceEngine_init", <<>>, reply, probe)
            /\ levels' = [level_2_enabled |-> Truthy(probe.val),
                          level_3_enabled |-> Truthy(_check_aws_availability.val)]
            /\ UNCHANGED << config, prefer_ollama, fallback_enabled, stats, threads,
                            ollama_model >>

NextProbe ==
    \/ OllamaEngine_init
    \/ IntelligenceEngine_init

SpecProbe == Init /\ [][NextProbe]_vars

\* ---------------------------------------------------------------------------
\* IntelligenceEngine: questions and evaluations through the three levels
\* ---------------------------------------------------------------------------

InterviewTypes == {"technical", "behavioral", "mixed"}

Level1QuestionFields ==
    { "id", "text", "followups", "type", "difficulty", "expected_keywords",
      "expected_length", "ideal_answer" }
Level2QuestionFields ==
    { "id", "text", "followups", "type", "difficulty", "expected_keywords",
      "expected_length" }
LevelScoreFields == {"technical", "communication", "confidence", "relevance", "short_notes"}

\* What the local server answers to a Level 2 request.  net:
\*   "connection_error", "timeout"  requests.post raises
\*   "http_error"                   a status other than 200
\*   "bad_body"                     a 200 whose body is not JSON
\*   "ok"                           a 200 whose "response" is text, one of
\*       "prose"       text without JSON
\*       "[q]"         an array of size question objects
\*       "fenced [q]"  the same inside a ```json block
\*       "{q}"         one question object, its keywords in an inner array
\*       "[7]"         an array with one number
\*       "{full}"      an evaluation object with every field, scores 70
\*       "{zero}"      the same with scores 0
\*       "{}"          the empty object
\*       "[{full}]"    an array with one evaluation object
Level2Failures == {"connection_error", "timeout", "http_error", "bad_body"}

Level2Reply(net, text, size) == [net |-> net, text |-> text, size |-> size]

NoLevel2Reply == Level2Reply("none", "", 0)

Level2QuestionReplies ==
    {Level2Reply(n, "", 0) : n \in Level2Failures} \cup
    {Level2Reply("ok", t, k) : t \in {"[q]", "fenced [q]"}, k \in 0..(MaxCount + 1)} \cup
    {Level2Reply("ok", t, 0) : t \in {"prose", "{q}", "[7]"}}

Level2EvaluationReplies ==
    {Level2Reply(n, "", 0) : n \in Level2Failures} \cup
    {Level2Reply("ok", t, 0) : t \in {"prose", "{full}", "{zero}", "{}", "[{full}]"}}

\* _parse_json_from_text: the fence is removed, then the text between the
\* first '[' and the last ']' is parsed, else the text between the braces,
\* else the whole text; None when nothing parses.
_parse_json_from_text(reply) ==
    CASE reply.text \in {"[q]", "fenced [q]"} ->
            List(IF reply.size = 0 THEN "none" ELSE "dict",
                 IF reply.size = 0 THEN {} ELSE Level2QuestionFields, reply.size, "level2")
      [] reply.text = "{q}" -> List("str", {}, 4, "level2")
      [] reply.text = "[7]" -> List("int", {}, 1, "level2")
      [] reply.text = "[{full}]" -> List("dict", LevelScoreFields, 1, "level2")
      [] reply.text = "{full}" -> Dict(LevelScoreFields, 70, "level2")
      [] reply.text = "{zero}" -> Dict(LevelScoreFields, 0, "level2")
      [] reply.text = "{}" -> Dict({}, -1, "level2")
      [] OTHER -> NoVal

\* What a level's method leaves: its result (None for nothing), the flag
\* level_2_enabled after it, the requests it sent.
Level(result, enabled, net) == [result |-> result, enabled |-> enabled, net |-> net]

\* Level 2 methods that switch the level off after any request without a
\* success status too.
Level2RaisesOrFails(reply) == reply.net # "ok"

\* The try/except shared by the Level 2 methods: an exception of the request
\* or of response.json() is caught and switches Level 2 off.
Level2Raises(reply) == reply.net \in {"connection_error", "timeout", "bad_body"}

\* questions[:count]
Slice(v, count) == [v EXCEPT !.size = Min(v.size, count)]

_level2_generate_questions(enabled, reply, count) ==
    IF ~enabled THEN Level(NoVal, enabled, 0)
    ELSE IF Level2Raises(reply) THEN Level(NoVal, FALSE, 1)
    ELSE IF reply.net # "ok" THEN Level(NoVal, enabled, 1)
    ELSE LET questions == _parse_json_from_text(reply)
         IN  IF questions.type = "list" /\ questions.size >= count
             THEN Level(Slice(questions, count), enabled, 1)
             ELSE Level(NoVal, enabled, 1)

_level2_evaluate_answer(enabled, reply) ==
    IF ~enabled THEN Level(NoVal, enabled, 0)
    ELSE IF Level2Raises(reply) THEN Level(NoVal, FALSE, 1)
    ELSE IF reply.net # "ok" THEN Level(NoVal, enabled, 1)
    ELSE LET evaluation == _parse_json_from_text(reply)
         IN  IF evaluation.type = "dict" /\ "technical" \in evaluation.fields
             THEN Level(evaluation, enabled, 1)
             ELSE Level(NoVal, enabled, 1)

\* Level 3 is an interface without an implementation: None, enabled or not.
_level3_generate_questions(enabled) == NoVal

_level3_evaluate_answer(enabled) == NoVal

\* The question types of a Level 1 interview.
_determine_question_mix(interview_type, count) ==
    IF interview_type = "technical" THEN Rep("technical", count - 1) \o <<"behavioral">>
    ELSE IF interview_type = "behavioral" THEN Rep("behavioral", count - 1) \o <<"technical">>
    ELSE [i \in 1..count |->
             IF (i - 1) % 3 = 0 THEN "aptitude"
             ELSE IF (i - 1) % 2 = 0 THEN "technical" ELSE "behavioral"]

\* One question per entry of the mix, built from the templates.
_level1_generate_questions(interview_type, count) ==
    LET n == Len(_determine_question_mix(interview_type, count))
    IN  List(IF n = 0 THEN "none" ELSE "dict", IF n = 0 THEN {} ELSE Level1QuestionFields,
             n, "level1")

\* min(100, 60 + 8 * technical words found), for an answer without any
_level1_evaluate_answer(answer) == Dict(LevelScoreFields, 60, "level1")

\* The public methods returning the Level 2 result whatever it is.
FirstResultUnchecked(level3, level2, level1) ==
    IF Truthy(level3) THEN [result |-> level3, tried |-> <<3>>]
    ELSE [result |-> level2, tried |-> <<3, 2>>]

\* `result = level 3; if result: return result`, the same with Level 2,
\* then Level 1.
FirstResult(level3, level2, level1) ==
    IF Truthy(level3) THEN [result |-> level3, tried |-> <<3>>]
    ELSE IF Truthy(level2) THEN [result |-> level2, tried |-> <<3, 2>>]
    ELSE [result |-> level1, tried |-> <<3, 2, 1>>]

\* The record of a call on the three-tier engine.
LevelCall(op, args, count, reply, level2, first) ==
    [Admin(op, "", NoVal)
        EXCEPT !.args = args,
               !.outcome = Return(first.result),
               !.net_calls = level2.net,
               !.report = [kind |-> "levels", count |-> count, reply |-> reply,
                           tried |-> first.tried,
                           level_2_was |-> levels.level_2_enabled]]

intelligence_generate_questions ==
    \E interview_type \in InterviewTypes, count \in 1..MaxCount :
    \E reply \in IF levels.level_2_enabled THEN Level2QuestionReplies ELSE {NoLevel2Reply} :
        LET level2 == _level2_generate_questions(levels.level_2_enabled, reply, count)
            first == FirstResult(_level3_generate_questions(levels.level_3_enabled),
                                 level2.result,
                                 _level1_generate_questions(interview_type, count))
        IN  /\ levels' = [levels EXCEPT !.level_2_enabled = level2.enabled]
            /\ call' = [LevelCall("intelligence_generate_questions", NoArgs, count, reply,
                                  level2, first)
                            EXCEPT !.engine_arg = interview_type]
            /\ UNCHANGED << config, prefer_ollama, fallback_enabled, stats, threads,
                            ollama_model >>

intelligence_evaluate_answer ==
    \E args \in ArgsOf("evaluate_answer") :
    \E reply \in IF levels.level_2_enabled THEN Level2EvaluationReplies ELSE {NoLevel2Reply} :
        LET level2 == _level2_evaluate_answer(levels.level_2_enabled, reply)
            first == FirstResult(_level3_evaluate_answer(levels.level_3_enabled),
                                 level2.result,
                                 _level1_evaluate_answer(args.answer))
        IN  /\ levels' = [levels EXCEPT !.level_2_enabled = level2.enabled]
            /\ call' = LevelCall("intelligence_evaluate_answer", args, 0, reply, level2, first)
            /\ UNCHANGED << config, prefer_ollama, fallback_enabled, stats, threads,
                            ollama_model >>

\* The three-tier engine after __init__: Level 2 as its probe found it.
InitIntelligence ==
    /\ RouterInit
    /\ ollama_model = OLLAMA_MODEL
    /\ \E reply \in ProbeReplies :
          levels = [level_2_enabled |-> Truthy(_check_ollama_availability(reply).val),
                    level_3_enabled |-> Truthy(_check_aws_availability.val)]

NextIntelligence ==
    \/ intelligence_generate_questions
    \/ intelligence_evaluate_answer

SpecIntelligence == InitIntelligence /\ [][NextIntelligence]_vars

\* ---------------------------------------------------------------------------
\* The local engine's availability flag
\* ---------------------------------------------------------------------------

\* ai_engine_router.ollama_engine.available = ... : the flag is a public
\* attribute, computed once by the probe in OllamaEngine.__init__ and
\* assigned afterwards only from outside the router, as the fallback
\* demonstration does to take the local engine away and to bring it back.
set_available ==
    \E available \in BOOLEAN :
        /\ available # ollama_available
        /\ ollama_available' = available
        /\ call' = Admin("set_available", "", NoVal)
        /\ UNCHANGED << PREFER_OLLAMA, FALLBACK_TO_GEMINI, GEMINI_API_KEY,
                        prefer_ollama, fallback_enabled, stats, threads, engines >>

\* ---------------------------------------------------------------------------
\* Specification
\* ---------------------------------------------------------------------------

Next ==
    \/ extract_candidate_context
    \/ generate_first_question
    \/ generate_next_question
    \/ evaluate_answer
    \/ generate_final_report
    \/ calculate_job_fit
    \/ generate_aptitude_questions
    \/ evaluate_aptitude_answer
    \/ force_engine
    \/ reset_preferences
    \/ get_engine_stats
    \/ health_check
    \/ intelligence_generate_final_report
    \/ set_available

Spec == Init /\ [][Next]_vars

\* ---------------------------------------------------------------------------
\* Concurrent callers of the shared router
\* ---------------------------------------------------------------------------

\* The module-level ai_engine_router is one object shared by every caller,
\* and no method takes a lock.  `self.stats[k] += 1` reads the counter and
\* writes it back as two steps, between which another caller's steps can
\* run.  A caller makes one call of a router operation, in these steps.

\* The request counter _select_engine increments for the engine it chose.
RequestCounter(engine_name) ==
    IF engine_name = "ollama" THEN "ollama_requests" ELSE "gemini_requests"

\* A caller whose call has returned: its locals are gone, the fallback
\* events of the call stay on record.
Returned(th) == [NoThread EXCEPT !.pc = "done", !.fallbacks = th.fallbacks]

\* _select_engine, up to the read of `self.stats[...] += 1`
select_load(t) ==
    /\ threads[t].pc = "idle"
    /\ \E op \in Operations :
          LET sel == _select_engine(prefer_ollama, fallback_enabled, ollama_available, stats)
          IN  threads' =
                [threads EXCEPT ![t] =
                    [pc |-> "select_store", op |-> op, engine_name |-> sel.engine_name,
                     loaded |-> stats[RequestCounter(sel.engine_name)], fallbacks |-> 0]]
    /\ UNCHANGED << config, prefer_ollama, fallback_enabled, stats, call, engines >>

\* the write of `self.stats[...] += 1`, then last_engine_used
select_store(t) ==
    /\ threads[t].pc = "select_store"
    /\ stats' = [stats EXCEPT ![RequestCounter(threads[t].engine_name)] = threads[t].loaded + 1,
                              !.last_engine_used = threads[t].engine_name]
    /\ threads' =
          [threads EXCEPT ![t].loaded = 0,
                          ![t].pc = IF threads[t].engine_name = "gemini" /\ prefer_ollama
                                    THEN "count_load" ELSE "run"]
    /\ UNCHANGED << config, prefer_ollama, fallback_enabled, call, engines >>

\* `if self.prefer_ollama: self.stats["fallback_count"] += 1`, the read
count_load(t) ==
    /\ threads[t].pc = "count_load"
    /\ threads' = [threads EXCEPT ![t].pc = "count_store",
                                  ![t].loaded = stats.fallback_count,
                                  ![t].fallbacks = 1]
    /\ UNCHANGED << config, prefer_ollama, fallback_enabled, stats, call, engines >>

\* ... and the write
count_store(t) ==
    /\ threads[t].pc = "count_store"
    /\ stats' = [stats EXCEPT !.fallback_count = threads[t].loaded + 1]
    /\ threads' = [threads EXCEPT ![t].pc = "run", ![t].loaded = 0]
    /\ UNCHANGED << config, prefer_ollama, fallback_enabled, call, engines >>

\* The call of the selected engine's method.  Under _execute_with_fallback
\* a rejected result of the local engine leads to the read of
\* `self.stats["fallback_count"] += 1`; every other call ends here.
run_primary(t) ==
    /\ threads[t].pc = "run"
    /\ IF threads[t].op \in FallbackOps /\ threads[t].engine_name = "ollama" /\ fallback_enabled
       THEN \E args \in ArgsOf(threads[t].op) :
            \E reply \in OllamaReplies(threads[t].op, args, TRUE) :
                IF Accepted(OllamaCall(threads[t].op, ollama_available, reply, args).outcome)
                THEN threads' = [threads EXCEPT ![t] = Returned(threads[t])]
                ELSE threads' = [threads EXCEPT ![t].pc = "fallback_store",
                                                ![t].loaded = stats.fallback_count,
                                                ![t].fallbacks = 1]
       ELSE threads' = [threads EXCEPT ![t] = Returned(threads[t])]
    /\ UNCHANGED << config, prefer_ollama, fallback_enabled, stats, call, engines >>

\* the write of `self.stats["fallback_count"] += 1`, then the fallback call
fallback_store(t) ==
    /\ threads[t].pc = "fallback_store"
    /\ stats' = [stats EXCEPT !.fallback_count = threads[t].loaded + 1]
    /\ threads' = [threads EXCEPT ![t] = Returned(threads[t])]
    /\ UNCHANGED << config, prefer_ollama, fallback_enabled, call, engines >>

NextConcurrent ==
    \/ \E t \in Callers : select_load(t)
    \/ \E t \in Callers : select_store(t)
    \/ \E t \in Callers : count_load(t)
    \/ \E t \in Callers : count_store(t)
    \/ \E t \in Callers : run_primary(t)
    \/ \E t \in Callers : fallback_store(t)

SpecConcurrent == Init /\ [][NextConcurrent]_vars

\* ---------------------------------------------------------------------------
\* Vocabulary of the properties
\* ---------------------------------------------------------------------------

\* The configured primary before the last call, and whether a provider is
\* available: the local engine's flag, the cloud engine's credential.
PrimaryBefore == IF call.pre.prefer_ollama THEN "ollama" ELSE "gemini"

IsAvailable(e) == IF e = "ollama" THEN ollama_available ELSE GEMINI_API_KEY

CallsOf(e) == IF e = "ollama" THEN call.ollama_calls ELSE call.gemini_calls

OutcomeOf(e) == IF e = "ollama" THEN call.ollama_outcome ELSE call.gemini_outcome

RequestsOf(st, e) == IF e = "ollama" THEN st.ollama_requests ELSE st.gemini_requests

\* A provider call is rejected when it raises or returns an empty string,
\* list or mapping (a value Python takes as false).
Rejected(o) ==
    \/ o.kind = "raise"
    \/ o.kind = "return" /\ o.val.type = "dict" /\ o.val.fields = {}
    \/ o.kind = "return" /\ o.val.type = "list" /\ o.val.size = 0
    \/ o.kind = "return" /\ o.val.type = "null"

IsOperation == call.op \in Operations

\* The last call changed the statistics by exactly these amounts.
StatsGrewBy(ollama, gemini, fallbacks) ==
    /\ stats.ollama_requests = call.pre.stats.ollama_requests + ollama
    /\ stats.gemini_requests = call.pre.stats.gemini_requests + gemini
    /\ stats.fallback_count = call.pre.stats.fallback_count + fallbacks

\* ---------------------------------------------------------------------------
\* C1
\* ---------------------------------------------------------------------------

\* The primary's call was made and rejected while fallback was enabled.
C1_PrimaryRejected(primary) ==
    /\ IsOperation
    /\ PrimaryBefore = primary
    /\ call.pre.fallback_enabled
    /\ CallsOf(primary) = 1
    /\ Rejected(OutcomeOf(primary))

C1_FellBack(primary) ==
    /\ CallsOf(Other(primary)) = 1
    /\ stats.fallback_count = call.pre.stats.fallback_count + 1
    /\ call.outcome = OutcomeOf(Other(primary))

\* C1 as stated: for either configured primary, a rejected primary call with
\* fallback enabled is followed by exactly one call of the other provider's
\* function, fallback_count grows by exactly 1, and the caller gets what the
\* fallback call produced.
C1_EitherPrimaryFallsBack ==
    \A primary \in Engines : C1_PrimaryRejected(primary) => C1_FellBack(primary)

\* C1 amended: with the local provider as configured primary, in each of the
\* seven operations run through _execute_with_fallback, a rejected local call
\* with fallback enabled is followed by exactly one call of the cloud
\* provider's function, fallback_count grows by exactly 1, and the caller
\* gets the outcome of the cloud call.
C1_LocalPrimaryFallsBack ==
    (C1_PrimaryRejected("ollama") /\ call.op \in FallbackOps) => C1_FellBack("ollama")

\* The local call returned an empty report and the cloud's report was served.
C1_Witness ==
    /\ C1_PrimaryRejected("ollama")
    /\ call.op = "generate_final_report"
    /\ call.ollama_outcome.kind = "return"
    /\ call.outcome.kind = "return"
    /\ call.gemini_calls = 1
    /\ stats.fallback_count = 1

\* ---------------------------------------------------------------------------
\* C2
\* ---------------------------------------------------------------------------

\* C2: when the configured primary is available and, if called, returns a
\* non-empty result, the operation selects the primary, only the primary's
\* request counter grows, by 1, last_engine_used is the primary and
\* fallback_count is unchanged -- whether fallback is enabled or not.
C2_AvailablePrimaryServes ==
    ( /\ IsOperation
      /\ IsAvailable(PrimaryBefore)
      /\ CallsOf(PrimaryBefore) > 0 => ~Rejected(OutcomeOf(PrimaryBefore)) )
    => ( /\ call.engine_name = PrimaryBefore
         /\ RequestsOf(stats, PrimaryBefore) = RequestsOf(call.pre.stats, PrimaryBefore) + 1
         /\ RequestsOf(stats, Other(PrimaryBefore))
                = RequestsOf(call.pre.stats, Other(PrimaryBefore))
         /\ stats.last_engine_used = PrimaryBefore
         /\ stats.fallback_count = call.pre.stats.fallback_count )

\* ---------------------------------------------------------------------------
\* C3
\* ---------------------------------------------------------------------------

\* C3: when the primary's call and the fallback's call both raise, the caller
\* gets an error and last_engine_used names the fallback provider.
C3_LastUsedIsFallback ==
    ( /\ IsOperation
      /\ call.ollama_calls = 1 /\ call.gemini_calls = 1
      /\ call.ollama_outcome.kind = "raise"
      /\ call.gemini_outcome.kind = "raise" )
    => ( /\ call.outcome.kind = "raise"
         /\ stats.last_engine_used = Other(PrimaryBefore) )

\* ---------------------------------------------------------------------------
\* C4
\* ---------------------------------------------------------------------------

\* C4: preference local, local unavailable, fallback enabled, cloud
\* available: generate_first_question is served by the cloud provider,
\* returns a question with a text, and the statistics change by exactly
\* gemini_requests + 1, fallback_count + 1, last_engine_used = gemini.
C4_CloudServesQuestion ==
    ( /\ call.op = "generate_first_question"
      /\ call.pre.prefer_ollama /\ ~ollama_available
      /\ call.pre.fallback_enabled /\ GEMINI_API_KEY )
    => ( /\ call.ollama_calls = 0 /\ call.gemini_calls = 1
         /\ call.outcome.kind = "return"
         /\ call.outcome.val.type = "dict" /\ "text" \in call.outcome.val.fields
         /\ StatsGrewBy(0, 1, 1)
         /\ stats.last_engine_used = "gemini" )

\* ---------------------------------------------------------------------------
\* C5
\* ---------------------------------------------------------------------------

\* The provider a name given to force_engine designates, if any.
C5_Designates(name) ==
    CASE name \in {"ollama", "Ollama"} -> "ollama"
      [] name \in {"gemini", "GEMINI"} -> "gemini"
      [] OTHER -> "unknown"

C5_Target == C5_Designates(call.engine_arg)

C5_TargetAvailable == C5_Target \in Engines /\ IsAvailable(C5_Target)

\* C5: force_engine returns true and makes the named provider the primary
\* exactly when that provider is available at the call; for an unavailable or
\* unknown provider it returns false and leaves the primary as it was.  It
\* never raises and never changes fallback_enabled or the statistics.
C5_ForceOnlyAvailable ==
    call.op = "force_engine" =>
        /\ call.outcome = Return(Bool(C5_TargetAvailable))
        /\ C5_TargetAvailable => prefer_ollama = (C5_Target = "ollama")
        /\ ~C5_TargetAvailable => prefer_ollama = call.pre.prefer_ollama
        /\ fallback_enabled = call.pre.fallback_enabled
        /\ stats = call.pre.stats

\* A force that was refused after requests had been counted: the cloud
\* provider without a credential, the primary still the local provider.
C5_Witness ==
    /\ call.op = "force_engine"
    /\ call.engine_arg = "gemini"
    /\ ~GEMINI_API_KEY
    /\ call.outcome = Return(Bool(FALSE))
    /\ prefer_ollama
    /\ stats.ollama_requests + stats.gemini_requests > 0

\* ---------------------------------------------------------------------------
\* C6
\* ---------------------------------------------------------------------------

\* C6: reset_preferences puts prefer_ollama and fallback_enabled back to the
\* configured startup values, whatever force_engine calls came before, and
\* leaves every field of the statistics as it was.
C6_ResetRestoresDefaults ==
    call.op = "reset_preferences" =>
        /\ prefer_ollama = PREFER_OLLAMA
        /\ fallback_enabled = FALLBACK_TO_GEMINI
        /\ stats = call.pre.stats

\* A reset that undid a forced preference, with requests already counted.
C6_Witness ==
    /\ call.op = "reset_preferences"
    /\ call.pre.prefer_ollama # PREFER_OLLAMA
    /\ prefer_ollama = PREFER_OLLAMA
    /\ stats.last_engine_used # "None"

\* ---------------------------------------------------------------------------
\* C7
\* ---------------------------------------------------------------------------

\* C7: evaluate_answer with an answer that is empty or has fewer than 10
\* characters once trimmed returns the fixed evaluation technical = 20,
\* communication = 20, relevance = 20, without any request to a provider and
\* without an error.
C7_ShortAnswerFixedScores ==
    (call.op = "evaluate_answer" /\ Len(Strip(call.args.answer)) < 10)
    => ( /\ call.outcome.kind = "return"
         /\ call.outcome.val.type = "dict"
         /\ ScoreFields \subseteq call.outcome.val.fields
         /\ call.outcome.val.score = 20
         /\ call.net_calls = 0 )

\* ---------------------------------------------------------------------------
\* C8
\* ---------------------------------------------------------------------------

\* The local provider's request failed, or its answer holds nothing the
\* operation can parse.
C8_LocalCallFailed ==
    /\ call.op \in FallbackOps
    /\ PrimaryBefore = "ollama"
    /\ call.ollama_calls = 1
    /\ \/ call.ollama_reply.net \in NetFailures
       \/ call.ollama_reply.net = "ok" /\ call.ollama_reply.text = "prose"

\* C8: when the local primary's request fails (network error, timeout,
\* non-success status) or its answer cannot be parsed, the router calls the
\* cloud provider if fallback is enabled and otherwise the caller gets an
\* error.
C8_FailureFallsBackOrPropagates ==
    C8_LocalCallFailed =>
        IF call.pre.fallback_enabled THEN call.gemini_calls = 1
        ELSE call.outcome.kind = "raise"

\* ---------------------------------------------------------------------------
\* C9
\* ---------------------------------------------------------------------------

C9_PrimaryUnavailable(primary) ==
    /\ IsOperation
    /\ PrimaryBefore = primary
    /\ ~IsAvailable(primary)
    /\ call.pre.fallback_enabled

C9_OtherSelected(primary) ==
    /\ call.engine_name = Other(primary)
    /\ RequestsOf(stats, Other(primary)) = RequestsOf(call.pre.stats, Other(primary)) + 1
    /\ RequestsOf(stats, primary) = RequestsOf(call.pre.stats, primary)
    /\ stats.fallback_count = call.pre.stats.fallback_count + 1
    /\ stats.last_engine_used = Other(primary)

\* C9 as stated: for either configured primary, when it is unavailable and
\* fallback is enabled the other provider is selected, its request counter
\* and fallback_count grow by 1 each, and it becomes last_engine_used.
C9_EitherPrimaryUnavailable ==
    \A primary \in Engines : C9_PrimaryUnavailable(primary) => C9_OtherSelected(primary)

\* C9 amended: when the local provider is the configured primary, is
\* unavailable and fallback is enabled, the cloud provider is selected,
\* gemini_requests and fallback_count grow by 1 each, and gemini becomes
\* last_engine_used.
C9_LocalPrimaryUnavailable ==
    C9_PrimaryUnavailable("ollama") => C9_OtherSelected("ollama")

\* An operation served by the cloud provider in place of the unavailable
\* local primary.
C9_Witness ==
    /\ C9_PrimaryUnavailable("ollama")
    /\ call.gemini_calls = 1
    /\ call.ollama_calls = 0
    /\ call.outcome.kind = "return"
    /\ stats.fallback_count = 1

\* ---------------------------------------------------------------------------
\* C10
\* ---------------------------------------------------------------------------

\* C10: for either configured primary, when it is unavailable and fallback
\* is disabled the operation still selects the configured primary and does
\* not call the other provider.
C10_DoomedPrimaryKept ==
    (IsOperation /\ ~IsAvailable(PrimaryBefore) /\ ~call.pre.fallback_enabled)
    => ( /\ call.engine_name = PrimaryBefore
         /\ CallsOf(Other(PrimaryBefore)) = 0 )

\* ---------------------------------------------------------------------------
\* C11
\* ---------------------------------------------------------------------------

\* C11: when the primary's call is rejected and the fallback's call is
\* rejected too (it raises or returns an empty string, list or mapping), the
\* caller gets an error; an empty fallback result is never returned as a
\* success.
C11_BothRejectedIsError ==
    ( /\ IsOperation
      /\ call.ollama_calls = 1 /\ call.gemini_calls = 1
      /\ Rejected(call.ollama_outcome)
      /\ Rejected(call.gemini_outcome) )
    => call.outcome.kind = "raise"

\* ---------------------------------------------------------------------------
\* C12
\* ---------------------------------------------------------------------------

\* The fields a result of op must carry.
C12_Contract(op) ==
    CASE op \in QuestionOps -> {"id", "text", "type", "difficulty"}
      [] op = "evaluate_answer" -> ScoreFields
      [] op = "generate_final_report" -> ReportFields
      [] op = "calculate_job_fit" -> JobFitFields
      [] op = "extract_candidate_context" -> ContextFields
      [] op = "generate_aptitude_questions" -> AptitudeFields
      [] OTHER -> AptitudeResultFields

C12_Complete(op, v) ==
    IF op = "generate_aptitude_questions"
    THEN v.type = "list" /\ (v.size > 0 => v.items = "dict" /\ C12_Contract(op) \subseteq v.fields)
    ELSE v.type = "dict" /\ C12_Contract(op) \subseteq v.fields

\* C12: every result a router operation returns to its caller is complete:
\* all fields of the operation's contract are present, the fields the
\* provider's response omitted being filled with defaults.
C12_ResultsComplete ==
    (IsOperation /\ call.outcome.kind = "return") => C12_Complete(call.op, call.outcome.val)

\* ---------------------------------------------------------------------------
\* C13
\* ---------------------------------------------------------------------------

\* What the claim names as rejected: a raise, an empty list, an empty
\* mapping (no provider method returns a string).
C13_Rejected(o) ==
    \/ o.kind = "raise"
    \/ o.kind = "return" /\ o.val.type = "dict" /\ o.val.fields = {}
    \/ o.kind = "return" /\ o.val.type = "list" /\ o.val.size = 0

\* C13: a result of the configured primary that is neither a raise nor an
\* empty list or mapping is accepted, however poor (an evaluation whose
\* scores are all zero): the caller gets it unchanged, the other provider is
\* not called and fallback_count does not change.
C13_NonEmptyPrimaryAccepted ==
    \A primary \in Engines :
        ( /\ IsOperation
          /\ PrimaryBefore = primary
          /\ CallsOf(primary) = 1
          /\ ~C13_Rejected(OutcomeOf(primary)) )
        => ( /\ call.outcome = OutcomeOf(primary)
             /\ CallsOf(Other(primary)) = 0
             /\ stats.fallback_count = call.pre.stats.fallback_count )

\* An all-zero evaluation from the local primary served while the cloud
\* provider stood ready as fallback.
C13_Witness ==
    /\ call.op = "evaluate_answer"
    /\ call.pre.prefer_ollama /\ call.pre.fallback_enabled /\ GEMINI_API_KEY
    /\ call.ollama_reply.text = "{zero}"
    /\ call.outcome = call.ollama_outcome
    /\ call.outcome.kind = "return"
    /\ call.outcome.val.score = 0
    /\ ScoreFields \subseteq call.outcome.val.fields
    /\ call.gemini_calls = 0

\* ---------------------------------------------------------------------------
\* C14
\* ---------------------------------------------------------------------------

\* C14: when the primary's call is rejected (it raises or returns an empty
\* result) and fallback is disabled, the caller gets an error, the primary's
\* own when it raised, the other provider is not called and fallback_count
\* does not change.
C14_NoFallbackPropagates ==
    \A primary \in Engines :
        ( /\ IsOperation
          /\ PrimaryBefore = primary
          /\ ~call.pre.fallback_enabled
          /\ CallsOf(primary) = 1
          /\ Rejected(OutcomeOf(primary)) )
        => ( /\ call.outcome.kind = "raise"
             /\ OutcomeOf(primary).kind = "raise" => call.outcome = OutcomeOf(primary)
             /\ CallsOf(Other(primary)) = 0
             /\ stats.fallback_count = call.pre.stats.fallback_count )

\* ---------------------------------------------------------------------------
\* C15
\* ---------------------------------------------------------------------------

\* The local call was rejected, the cloud call was made in its place and
\* raised.
C15_FallbackRaised ==
    /\ IsOperation
    /\ call.ollama_calls >= 1 /\ call.gemini_calls >= 1
    /\ Rejected(call.ollama_outcome)
    /\ call.gemini_outcome.kind = "raise"

\* C15: when the primary is rejected, the fallback is attempted and the
\* fallback raises, the caller gets the fallback's error, not the primary's
\* error or empty-result rejection, and no third provider call is made.
C15_FallbackErrorPropagates ==
    C15_FallbackRaised =>
        /\ call.outcome = call.gemini_outcome
        /\ call.ollama_calls + call.gemini_calls = 2

\* The local provider returned an empty list of aptitude questions and the
\* cloud provider failed on a response that is not a list of objects: the
\* caller sees the cloud provider's TypeError.
C15_Witness ==
    /\ C15_FallbackRaised
    /\ call.op = "generate_aptitude_questions"
    /\ call.ollama_outcome.kind = "return"
    /\ call.gemini_outcome = Raise("TypeError")
    /\ call.outcome = Raise("TypeError")
    /\ stats.fallback_count = call.pre.stats.fallback_count + 1

\* ---------------------------------------------------------------------------
\* C16
\* ---------------------------------------------------------------------------

\* No caller is inside a call.
C16_AllCompleted == \A t \in Callers : threads[t].pc \in {"idle", "done"}

C16_CallsMade == Cardinality({t \in Callers : threads[t].pc = "done"})

C16_FallbackEvents == Cardinality({t \in Callers : threads[t].fallbacks = 1})

\* C16: when callers run router operations concurrently on the shared
\* router, no statistics update is lost: once all calls have completed,
\* ollama_requests + gemini_requests is the number of calls made and
\* fallback_count is the number of fallback events.
C16_NoLostUpdate ==
    C16_AllCompleted =>
        /\ stats.ollama_requests + stats.gemini_requests = C16_CallsMade
        /\ stats.fallback_count = C16_FallbackEvents

\* ---------------------------------------------------------------------------
\* C17
\* ---------------------------------------------------------------------------

\* The last call on the router was a force_engine naming the cloud provider
\* that returned true.
C17_ForcedCloud ==
    /\ call.op = "force_engine"
    /\ LowerName(call.engine_arg) = "gemini"
    /\ call.outcome = Return(Bool(TRUE))

\* C17: after force("gemini") has returned true, an operation call, with
\* fallback enabled or disabled, is served by the cloud provider:
\* last_engine_used = gemini, gemini_requests grows by 1 and fallback_count
\* does not change.  Stated for the operation that directly follows the
\* force; operations leave the preference as it is, so the calls after it
\* meet the router in the same condition.
C17_ForcedCloudServes ==
    [][ (C17_ForcedCloud /\ call'.op \in Operations)
        => ( /\ call'.engine_name = "gemini"
             /\ stats'.last_engine_used = "gemini"
             /\ stats'.gemini_requests = stats.gemini_requests + 1
             /\ stats'.fallback_count = stats.fallback_count ) ]_vars

\* ---------------------------------------------------------------------------
\* C18
\* ---------------------------------------------------------------------------

\* An operation called with preference = local and fallback enabled.
C18_LocalPreferred == IsOperation /\ call.pre.prefer_ollama /\ call.pre.fallback_enabled

\* Issued while the local engine is unavailable, the operation is served by
\* the cloud engine and counted as a fallback.
C18_UnavailableGoesCloud ==
    (C18_LocalPreferred /\ ~ollama_available)
    => ( /\ call.engine_name = "gemini"
         /\ stats.last_engine_used = "gemini"
         /\ stats.fallback_count = call.pre.stats.fallback_count + 1 )

\* C18 as stated: with preference = local and fallback enabled, selection
\* follows availability call by call: an operation issued while local is
\* unavailable is served by cloud (last_engine_used = gemini, fallback_count
\* increased), and an operation issued once the flag is true again is served
\* by local (last_engine_used = ollama) with no increase of fallback_count.
C18_SelectionFollowsAvailability ==
    /\ C18_UnavailableGoesCloud
    /\ (C18_LocalPreferred /\ ollama_available)
       => ( /\ call.engine_name = "ollama"
            /\ stats.last_engine_used = "ollama"
            /\ stats.fallback_count = call.pre.stats.fallback_count )

\* C18 amended: as above, the operation issued once the flag is true again
\* being selected for local (last_engine_used = ollama), with no increase of
\* fallback_count when the local call's result is accepted.
C18_SelectionFollowsAvailabilityIfAccepted ==
    /\ C18_UnavailableGoesCloud
    /\ (C18_LocalPreferred /\ ollama_available)
       => ( /\ call.engine_name = "ollama"
            /\ stats.last_engine_used = "ollama"
            /\ ~Rejected(call.ollama_outcome)
                   => stats.fallback_count = call.pre.stats.fallback_count )

\* The demonstration's third step: a first operation went to the cloud while
\* the local engine was away, the flag was set back, and the next operation
\* is served by the local engine with the fallback count where it was.
C18_Witness ==
    /\ C18_LocalPreferred /\ ollama_available
    /\ call.pre.stats.last_engine_used = "gemini"
    /\ call.pre.stats.fallback_count = 1
    /\ call.engine_name = "ollama"
    /\ call.outcome.kind = "return"
    /\ stats.last_engine_used = "ollama"
    /\ stats.fallback_count = 1
    /\ stats.gemini_requests = 1 /\ stats.ollama_requests = 1

\* ---------------------------------------------------------------------------
\* C19
\* ---------------------------------------------------------------------------

\* C19: across any sequence of operation calls, force_engine,
\* reset_preferences and status reads, the counters ollama_requests,
\* gemini_requests and fallback_count never decrease, and last_engine_used
\* never returns to None once it has been set.
C19_StatsMonotonic ==
    [][ /\ stats'.ollama_requests >= stats.ollama_requests
        /\ stats'.gemini_requests >= stats.gemini_requests
        /\ stats'.fallback_count >= stats.fallback_count
        /\ stats.last_engine_used # "None" => stats'.last_engine_used # "None" ]_vars

\* A reset or a status read made after requests and a fallback had been
\* counted, the statistics still standing.
C19_Witness ==
    /\ call.op \in {"reset_preferences", "get_engine_stats", "health_check"}
    /\ stats.ollama_requests + stats.gemini_requests > 1
    /\ stats.fallback_count > 0
    /\ stats.last_engine_used # "None"

\* ---------------------------------------------------------------------------
\* C20
\* ---------------------------------------------------------------------------

\* The explicit "no data" report: the summary saying that no evaluation data
\* is available, every numeric score 0.
C20_NoDataReport(o) ==
    /\ o.kind = "return"
    /\ o.val.type = "dict"
    /\ o.val.src = "nodata"
    /\ "overall_summary" \in o.val.fields
    /\ o.val.score = 0

\* C20: generate_final_report with an empty evaluations list returns the
\* explicit "no data" report, without a division by zero and without a
\* request to a provider: from the local provider's method and the cloud
\* provider's method whenever they are called, from the router, and from the
\* three-tier engine.
C20_EmptyEvaluationsNoData ==
    ( /\ call.op \in {"generate_final_report", "intelligence_generate_final_report"}
      /\ call.args.evaluations = <<>> )
    => ( /\ C20_NoDataReport(call.outcome)
         /\ call.net_calls = 0
         /\ call.ollama_calls > 0 => C20_NoDataReport(call.ollama_outcome)
         /\ call.gemini_calls > 0 => C20_NoDataReport(call.gemini_outcome) )

\* A report asked of a router whose local engine is unavailable and has no
\* fallback: the local method still answers with the "no data" report.
C20_Witness ==
    /\ call.op = "generate_final_report"
    /\ call.args.evaluations = <<>>
    /\ ~ollama_available /\ ~call.pre.fallback_enabled
    /\ call.ollama_calls = 1
    /\ C20_NoDataReport(call.outcome)
    /\ call.outcome.val.fields = ReportFields

\* ---------------------------------------------------------------------------
\* C21
\* ---------------------------------------------------------------------------

\* Equal ignoring case and surrounding whitespace.
C21_SameAnswer(user_answer, correct_answer) ==
    Lower(Strip(user_answer)) = Lower(Strip(correct_answer))

\* C21: evaluate_aptitude_answer returns correct = true, with score 100,
\* exactly when user_answer and the question's correct_answer are equal
\* ignoring case and surrounding whitespace, and score 0 otherwise, whichever
\* provider the router selects.
C21_ExactMatchScore ==
    call.op = "evaluate_aptitude_answer" =>
        /\ call.outcome.kind = "return"
        /\ AptitudeResultFields \subseteq call.outcome.val.fields
        /\ call.outcome.val.score =
              IF C21_SameAnswer(call.args.user_answer, call.args.correct_answer)
              THEN 100 ELSE 0

\* ---------------------------------------------------------------------------
\* C22: the three-tier engine always answers
\* ---------------------------------------------------------------------------

C22_LevelOps == {"intelligence_generate_questions", "intelligence_evaluate_answer"}

C23_ReportsCurrent(r) ==
    \/ /\ r.kind = "engine_stats"
       /\ r.ollama_requests = stats'.ollama_requests
       /\ r.gemini_requests = stats'.gemini_requests
       /\ r.fallback_count = stats'.fallback_count
       /\ r.last_engine_used = stats'.last_engine_used
       /\ r.ollama_available = ollama_available'
       /\ r.gemini_available = GEMINI_API_KEY'
       /\ (r.current_preference = "ollama") = prefer_ollama'
       /\ r.current_preference \in {"ollama", "gemini"}
       /\ r.fallback_enabled = fallback_enabled'
    \/ /\ r.kind = "health"
       /\ r.ollama.available = ollama_available'
       /\ r.gemini.available = GEMINI_API_KEY'
       /\ r.router.prefer_ollama = prefer_ollama'
       /\ r.router.fallback_enabled = fallback_enabled'
       /\ r.router.stats = stats'

\* C23: get_engine_stats and health_check change nothing: the request
\* counters, fallback_count, last_engine_used, the preference, the fallback
\* flag and the providers' availability are the same after the read as
\* before it, and the values reported are the router's current ones.
C23_StatusReadsPure ==
    [][call'.op \in {"get_engine_stats", "health_check"} =>
          /\ stats' = stats
          /\ prefer_ollama' = prefer_ollama
          /\ fallback_enabled' = fallback_enabled
          /\ ollama_available' = ollama_available
          /\ GEMINI_API_KEY' = GEMINI_API_KEY
          /\ C23_ReportsCurrent(call'.report)]_vars

\* A read of the statistics after a fallback was counted.
C23_Witness ==
    /\ call.op = "get_engine_stats"
    /\ call.report.kind = "engine_stats"
    /\ stats.fallback_count > 0
    /\ call.report.fallback_count = stats.fallback_count
    /\ ~prefer_ollama

\* ---------------------------------------------------------------------------
\* C24: the probes never raise
\* ---------------------------------------------------------------------------

C24_ProbeOps == {"OllamaEngine_init", "IntelligenceEngine_init"}

C24_Failed(reply) == reply.net \in {"connection_error", "timeout", "http_error", "bad_body"}

\* The flag the probed engine holds after the probe.
C24_Flag == IF call.op = "OllamaEngine_init" THEN ollama_available ELSE levels.level_2_enabled

\* C24: a probe of the local server never raises to the caller: after a
\* network error, a timeout, a status other than success or an unreadable
\* body the probe has returned and the flag it sets is false.
C24_ProbeNeverRaises ==
    call.op \in C24_ProbeOps =>
        /\ call.outcome.kind = "return"
        /\ C24_Failed(call.report.reply) => ~C24_Flag

\* C24, amended: as above, except that the three-tier engine's probe reads
\* the status only, so a success status with an unreadable body leaves its
\* flag true.
C24_ProbeNeverRaisesStatusOnly ==
    call.op \in C24_ProbeOps =>
        /\ call.outcome.kind = "return"
        /\ (/\ C24_Failed(call.report.reply)
            /\ ~(call.op = "IntelligenceEngine_init" /\ call.report.reply.net = "bad_body"))
               => ~C24_Flag
        /\ (call.op = "IntelligenceEngine_init" /\ call.report.reply.net = "bad_body")
               => C24_Flag

\* The local engine was built against a server whose body cannot be read.
C24_Witness ==
    /\ call.op = "OllamaEngine_init"
    /\ call.report.reply.net = "bad_body"
    /\ call.outcome.kind = "return"
    /\ ~ollama_available

\* ---------------------------------------------------------------------------
\* C25: the statistics name the provider that answered
\* ---------------------------------------------------------------------------

\* The provider whose call produced the outcome of the last operation: the
\* cloud provider when it was called (as primary or as fallback), else the
\* local one.
C25_Producer == IF call.gemini_calls > 0 THEN "gemini" ELSE "ollama"

\* C25: after a router operation that returns a result, last_engine_used
\* names the provider whose call produced the result and that provider's
\* request counter grew by one for the call, also when the result came from
\* the fallback after the primary was rejected.
C25_LastUsedIsProducer ==
    ( /\ IsOperation
      /\ call.outcome.kind = "return"
      /\ CallsOf(C25_Producer) = 1 )
    => ( /\ stats.last_engine_used = C25_Producer
         /\ RequestsOf(stats, C25_Producer) = RequestsOf(call.pre.stats, C25_Producer) + 1 )

\* ---------------------------------------------------------------------------
\* C26: the router leaves the availability flags alone
\* ---------------------------------------------------------------------------

C26_RouterActions ==
    Operations \cup {"force_engine", "reset_preferences", "get_engine_stats", "health_check"}

\* C26: no router action (operation, fallback, force, reset, status read)
\* changes a provider's availability flag; after an available local
\* primary's call was rejected the local provider is still marked available, and the next
\* operation under the same preference selects the local provider and calls
\* it again.
C26_AvailabilityKept ==
    [][call'.op \in C26_RouterActions =>
          /\ ollama_available' = ollama_available
          /\ GEMINI_API_KEY' = GEMINI_API_KEY
          /\ ( /\ call.op \in Operations
               /\ call.engine_name = "ollama"
               /\ call.ollama_calls = 1
               /\ Rejected(call.ollama_outcome)
               /\ ollama_available
               /\ call'.op \in Operations
               /\ prefer_ollama )
             => ( /\ ollama_available'
                  /\ call'.engine_name = "ollama"
                  /\ call'.ollama_calls = 1 )]_vars

\* The available local provider was rejected in the operation before the
\* last one and was called again in the last one.
C26_Witness ==
    /\ IsOperation
    /\ call.engine_name = "ollama"
    /\ call.ollama_calls = 1
    /\ ollama_available
    /\ call.pre.stats.fallback_count = 1
    /\ call.pre.stats.ollama_requests = 1
    /\ call.pre.stats.last_engine_used = "ollama"

\* ---------------------------------------------------------------------------
\* C27: who changes the preference
\* ---------------------------------------------------------------------------

\* C27: operations and status reads never change the preference:
\* prefer_ollama changes only in a force_engine that returns true or in
\* reset_preferences, and fallback_enabled has its startup value
\* FALLBACK_TO_GEMINI in every reachable state.
C27_PreferenceOnlyByOperator ==
    [][/\ prefer_ollama' # prefer_ollama =>
             \/ call'.op = "force_engine" /\ call'.outcome = Return(Bool(TRUE))
             \/ call'.op = "reset_preferences"
       /\ call'.op \in Operations \cup {"get_engine_stats", "health_check"} =>
             prefer_ollama' = prefer_ollama
       /\ fallback_enabled = FALLBACK_TO_GEMINI
       /\ fallback_enabled' = FALLBACK_TO_GEMINI']_vars

\* An operation ran under a forced preference and left it in place.
C27_Witness ==
    /\ IsOperation
    /\ prefer_ollama # PREFER_OLLAMA
    /\ call.pre.prefer_ollama = prefer_ollama
    /\ fallback_enabled = FALLBACK_TO_GEMINI

\* ---------------------------------------------------------------------------
\* C28: one request counted per operation
\* ---------------------------------------------------------------------------

C28_Total(st) == st.ollama_requests + st.gemini_requests

\* C28: ollama_requests + gemini_requests is the number of operation calls
\* so far: it is 0 when the router is built, every operation call adds
\* exactly 1 to exactly one of the two counters whether it succeeds, falls
\* back or fails, nothing else changes them, and fallback_count never
\* exceeds their sum.
C28_OneRequestPerCall ==
    [][/\ call.op = "init" => C28_Total(stats) = 0 /\ stats.fallback_count = 0
       /\ call'.op \in Operations =>
             \/ /\ stats'.ollama_requests = stats.ollama_requests + 1
                /\ stats'.gemini_requests = stats.gemini_requests
             \/ /\ stats'.gemini_requests = stats.gemini_requests + 1
                /\ stats'.ollama_requests = stats.ollama_requests
       /\ call'.op \notin Operations =>
             /\ stats'.ollama_requests = stats.ollama_requests
             /\ stats'.gemini_requests = stats.gemini_requests
       /\ stats'.fallback_count <= C28_Total(stats')]_vars

\* A second operation call that failed, counted once like the first.
C28_Witness ==
    /\ IsOperation
    /\ call.outcome.kind = "raise"
    /\ C28_Total(call.pre.stats) = 1
    /\ C28_Total(stats) = 2
    /\ stats.fallback_count = 2

\* ---------------------------------------------------------------------------
\* C29: Level 2 is switched off by an exception, for good
\* ---------------------------------------------------------------------------

\* The request of the Level 2 call raised (no connection, a timeout), or its
\* body could not be decoded.
C29_Raised(reply) == reply.net \in {"connection_error", "timeout", "bad_body"}

\* The Level 2 call ended without an exception and without a usable result:
\* a status other than success, or a "response" text holding no JSON.
C29_Unusable(reply) ==
    \/ reply.net = "http_error"
    \/ reply.net = "ok" /\ reply.text = "prose"

\* C29: when a Level 2 call raises, level_2_enabled becomes false; once false
\* it stays false, later calls send no request to Level 2 and are served by
\* Level 1.  A Level 2 call that gets a status other than success or a
\* response text that cannot be parsed leaves level_2_enabled true.
C29_DisabledForGood ==
    [][call'.op \in C22_LevelOps =>
          /\ (levels.level_2_enabled /\ C29_Raised(call'.report.reply))
                 => ~levels'.level_2_enabled
          /\ ~levels.level_2_enabled =>
                 /\ ~levels'.level_2_enabled
                 /\ call'.net_calls = 0
                 /\ call'.outcome = Return(call'.outcome.val)
                 /\ call'.outcome.val.src = "level1"
          /\ (levels.level_2_enabled /\ C29_Unusable(call'.report.reply))
                 => /\ levels'.level_2_enabled
                    /\ call'.outcome.val.src = "level1"]_vars

\* Level 2 was on, its request timed out, and it is off now; Level 1 served.
C29_Witness ==
    /\ call.op \in C22_LevelOps
    /\ call.report.level_2_was
    /\ call.report.reply.net = "timeout"
    /\ ~levels.level_2_enabled
    /\ call.outcome.val.src = "level1"

\* ---------------------------------------------------------------------------
\* C30: what the local engine's probe finds
\* ---------------------------------------------------------------------------

C30_Listed(model, names) == \E i \in 1..Len(names) : names[i] = model

\* C30: the probe of the local engine reports available exactly when the
\* server answers with success and lists at least one model; the model stays
\* the configured one when it is listed, becomes the first listed model when
\* it is not listed and others are, and the engine is unavailable when none
\* is listed.
C30_ProbeChoosesListedModel ==
    call.op = "OllamaEngine_init" =>
        LET configured == call.report.configured
            reply == call.report.reply
        IN  /\ ollama_available = (reply.net = "ok" /\ reply.names # <<>>)
            /\ (reply.net = "ok" /\ C30_Listed(configured, reply.names))
                   => ollama_model = configured
            /\ (reply.net = "ok" /\ ~C30_Listed(configured, reply.names) /\ reply.names # <<>>)
                   => ollama_available /\ ollama_model = reply.names[1]
            /\ (reply.net = "ok" /\ reply.names = <<>>) => ~ollama_available
====
